---- MODULE Spec2Model ----
(***************************************************************************)
(* Model of scripts/python/tlgrid.py: the builder of the monthly Linke     *)
(* turbidity grid file "TLB2".                                             *)
(*                                                                         *)
(* Floating point values are modelled as exact rationals [k, n, d] (kind,  *)
(* numerator, positive denominator); the kinds "nan", "pinf", "ninf" are   *)
(* the IEEE non-finite values and "big" is a finite double above the       *)
(* float32 range.  Rounding errors of double arithmetic are not modelled.  *)
(***************************************************************************)
EXTENDS Integers, Sequences, FiniteSets, TLC

(* ---------------------------------------------------------------- bounds *)
\* largest (vmax - vmin) of the latitude axis drawn in Init
MaxLatSpan == 3
\* largest (vmax - vmin) of the longitude axis drawn in Init
MaxLonSpan == 2
\* largest step dv drawn in Init
MaxStep == 2

(* ------------------------------------------------------ program constants *)
SCALE == 20
NMonths == 12
\* widths of the struct formats "<H" and "<B"
U16Max == 65535
U8Max == 255

(* -------------------------------------------------------------- rationals *)
Abs(x) == IF x < 0 THEN -x ELSE x

RECURSIVE GCD(_, _)
GCD(a, b) == IF b = 0 THEN a ELSE GCD(b, a % b)

\* the finite value n/d in lowest terms, d > 0
Rat(n, d) ==
    LET s == IF d < 0 THEN -1 ELSE 1
        g == GCD(Abs(n), Abs(d))
    IN [k |-> "fin", n |-> (s * n) \div g, d |-> (s * d) \div g]

NaN == [k |-> "nan", n |-> 0, d |-> 1]
PInf == [k |-> "pinf", n |-> 0, d |-> 1]
NInf == [k |-> "ninf", n |-> 0, d |-> 1]
\* a finite double larger than the largest float32 (for instance 4e38)
Big == [k |-> "big", n |-> 0, d |-> 1]

IsFinite(x) == x.k = "fin"

RLess(a, b) == a.n * b.d < b.n * a.d

\* Python's round(p / q) for q # 0: nearest integer, ties to the even one
RoundHalfAwayMutant(p, q) ==
    LET s == IF q < 0 THEN -1 ELSE 1
        pp == s * p
        qq == s * q
        a == Abs(pp)
        r == (2 * a + qq) \div (2 * qq)
    IN IF pp < 0 THEN -r ELSE r

RoundHalfEven(p, q) ==
    LET s == IF q < 0 THEN -1 ELSE 1
        pp == s * p
        qq == s * q
        fl == pp \div qq
        r == pp % qq
    IN IF 2 * r < qq THEN fl
       ELSE IF 2 * r > qq THEN fl + 1
       ELSE IF fl % 2 = 0 THEN fl ELSE fl + 1

(* -------------------------------------------------------- grid geometry *)
\* np.linspace(start, stop, num) for num >= 0, start and stop finite
LinspaceNoEndpointMutant(start, stop, num) ==
    [k \in 1..num |->
        Rat(start.n * stop.d * num + (k - 1) * (stop.n * start.d - start.n * stop.d),
            start.d * stop.d * num)]

Linspace(start, stop, num) ==
    [k \in 1..num |->
        IF num = 1 THEN start
        ELSE Rat(start.n * stop.d * (num - 1)
                    + (k - 1) * (stop.n * start.d - start.n * stop.d),
                 start.d * stop.d * (num - 1))]

\* centers(vmin, vmax, dv): [err, vals, n]; err is the exception raised or "none"
centers(vmin, vmax, dv) ==
    IF dv = 0 THEN [err |-> "ZeroDivisionError", vals |-> <<>>, n |-> 0]
    ELSE LET n == RoundHalfEven(vmax - vmin, dv)
         IN IF n < 0 THEN [err |-> "ValueError", vals |-> <<>>, n |-> n]
            ELSE [err |-> "none",
                  vals |-> Linspace(Rat(2 * vmin + dv, 2), Rat(2 * vmax - dv, 2), n),
                  n |-> n]

(* ------------------------------------------- the climatology collaborator *)
\* Datasets of the external provider: the values it cycles through.
Pool(data) ==
    CASE data = 0 -> << Rat(307, 100), Rat(13, 1), Rat(-1, 1), Rat(0, 1),
                        Rat(1275, 100), Rat(5, 1), Rat(1000000, 1) >>
      [] data = 1 -> << Rat(25, 1000), Rat(75, 1000), Rat(125, 1000),
                        Rat(12725, 1000), Rat(1274, 100), Rat(1276, 100),
                        Rat(12775, 1000), Rat(-1000000, 1), Rat(3, 1) >>
      [] OTHER    -> << Rat(2, 1), NaN, PInf, Rat(307, 100), NInf >>

Floor(x) == x.n \div x.d

\* the 12 monthly values the provider holds for a coordinate (deterministic)
Series(p, lat, lon) ==
    LET pool == Pool(p.data)
        key == (Floor(lat) + 2 * Floor(lon)) % Len(pool)
    IN [m \in 0..(NMonths - 1) |-> pool[((m + key) % Len(pool)) + 1]]

\* the coordinates at which the provider raises inside its body
FaultAt(p, lat, lon) ==
    /\ p.fault # "none"
    /\ \/ p.where = "everywhere"
       \/ lat.n > 0 /\ lon.n > 0

\* lookup_linke_turbidity called in one form: [res, tl].
\*   "sigmismatch": TypeError raised while binding the arguments
\*   "typeerror"  : TypeError raised inside the body
\*   "unavailable": any other exception raised inside the body
Collaborator(p, form, lat, lon) ==
    IF form = "keyword" /\ p.api = "positional"
    THEN [res |-> "sigmismatch", tl |-> <<>>]
    ELSE IF FaultAt(p, lat, lon)
    THEN [res |-> p.fault, tl |-> <<>>]
    ELSE [res |-> "ok", tl |-> Series(p, lat, lon)]

\* the Python exception class of a collaborator failure
ExcClass(res) ==
    IF res \in {"sigmismatch", "typeerror"} THEN "TypeError" ELSE "LookupError"

\* the except clause of lt_lookup: which exception classes trigger the retry
Caught(res) == res # "ok" /\ ExcClass(res) = "TypeError"

(* -------------------------------------------------------------- quantizer *)
\* tl * SCALE
Scaled(v, scale) == IF IsFinite(v) THEN Rat(v.n * scale, v.d) ELSE v

\* np.clip(x, lo, hi): NaN stays NaN
Clip(x, lo, hi) ==
    CASE x.k = "nan" -> x
      [] x.k = "pinf" -> Rat(hi, 1)
      [] x.k = "ninf" -> Rat(lo, 1)
      [] OTHER -> IF RLess(x, Rat(lo, 1)) THEN Rat(lo, 1)
                  ELSE IF RLess(Rat(hi, 1), x) THEN Rat(hi, 1)
                  ELSE x

\* np.rint(x): to the nearest integer, ties to even
RintHalfAwayMutant(x) ==
    IF IsFinite(x) THEN Rat(RoundHalfAwayMutant(x.n, x.d), 1) ELSE x

Rint(x) == IF IsFinite(x) THEN Rat(RoundHalfEven(x.n, x.d), 1) ELSE x

\* x.astype(np.uint8) of an integral x; the cast of NaN is unspecified and
\* yields the byte nc the platform produces
AsUint8(x, nc) == IF IsFinite(x) THEN x.n % 256 ELSE nc

\* v = np.rint(np.clip(tl * SCALE, 0, 255)).astype(np.uint8), one element
Quantize(v, scale, nc) == AsUint8(Rint(Clip(Scaled(v, scale), 0, U8Max)), nc)

\* bytes the cast of NaN to uint8 is taken to produce
NaNCastOutcomes == {0, 128, 255}

HasNaN(tl) == \E m \in DOMAIN tl : tl[m].k = "nan"

(* ---------------------------------------------------------- binary encoder *)
\* struct.pack("<H", v): 2 bytes, or struct.error
PackHWrapMutant(v) ==
    [err |-> "none", bytes |-> << v % 256, (v \div 256) % 256 >>]

PackH(v) ==
    IF v < 0 \/ v > U16Max THEN [err |-> "struct.error", bytes |-> <<>>]
    ELSE [err |-> "none", bytes |-> << v % 256, v \div 256 >>]

\* struct.pack("<B", v): 1 byte, or struct.error
PackB(v) ==
    IF v < 0 \/ v > U8Max THEN [err |-> "struct.error", bytes |-> <<>>]
    ELSE [err |-> "none", bytes |-> << v >>]

RECURSIVE Pow2(_)
Pow2(e) == IF e = 0 THEN 1 ELSE 2 * Pow2(e - 1)

\* the binary exponent e of a/d > 0: 2^e <= a/d < 2^(e+1)
RECURSIVE Exponent(_, _)
Exponent(a, d) ==
    IF a < d THEN Exponent(2 * a, d) - 1
    ELSE IF a >= 2 * d THEN Exponent(a, 2 * d) + 1
    ELSE 0

\* IEEE-754 binary32 of a finite rational, little-endian (normal range only)
F32Bytes(x) ==
    IF x.n = 0 THEN << 0, 0, 0, 0 >>
    ELSE LET a == Abs(x.n)
             e0 == Exponent(a, x.d)
             m0 == IF e0 <= 23 THEN RoundHalfEven(a * Pow2(23 - e0), x.d)
                   ELSE RoundHalfEven(a, x.d * Pow2(e0 - 23))
             e == IF m0 = Pow2(24) THEN e0 + 1 ELSE e0
             frac == IF m0 = Pow2(24) THEN 0 ELSE m0 - Pow2(23)
             E == e + 127
             sgn == IF x.n < 0 THEN 128 ELSE 0
         IN << frac % 256, (frac \div 256) % 256,
               (E % 2) * 128 + (frac \div 65536), sgn + (E \div 2) >>

\* struct.pack("<f", x): 4 bytes, or OverflowError for a finite double out of
\* the float32 range
PackF(x) ==
    CASE x.k = "big" -> [err |-> "OverflowError", bytes |-> <<>>]
      [] x.k = "nan" -> [err |-> "none", bytes |-> << 0, 0, 192, 127 >>]
      [] x.k = "pinf" -> [err |-> "none", bytes |-> << 0, 0, 128, 127 >>]
      [] x.k = "ninf" -> [err |-> "none", bytes |-> << 0, 0, 128, 255 >>]
      [] OTHER -> [err |-> "none", bytes |-> F32Bytes(x)]

\* the header built by write_bin before the file is opened
PackHeader(meta) ==
    LET parts == << [err |-> "none", bytes |-> << 84, 76, 66, 50 >>],
                    PackH(2), PackH(meta.nlat), PackH(meta.nlon),
                    PackB(meta.scale), PackB(0),
                    PackF(meta.lat0), PackF(meta.lon0),
                    PackF(meta.dlat), PackF(meta.dlon) >>
        bad == { q \in 1..Len(parts) : parts[q].err # "none" }
        first == CHOOSE q \in bad : \A r \in bad : q <= r
    IN IF bad # {} THEN [err |-> parts[first].err, bytes |-> <<>>]
       ELSE [err |-> "none",
             bytes |-> parts[1].bytes \o parts[2].bytes \o parts[3].bytes
                       \o parts[4].bytes \o parts[5].bytes \o parts[6].bytes
                       \o parts[7].bytes \o parts[8].bytes \o parts[9].bytes
                       \o parts[10].bytes]

\* np.zeros((12, a, b), dtype=np.uint8)
Zeros(a, b) ==
    [shape |-> << NMonths, a, b >>,
     data |-> [m \in 0..(NMonths - 1) |-> [r \in 0..(a - 1) |-> [c \in 0..(b - 1) |-> 0]]]]

\* arr.tobytes(order="C"): the last index varies fastest
ToBytesFortranMutant(arr) ==
    LET a == arr.shape[2]
        b == arr.shape[3]
    IN [q \in 1..(NMonths * a * b) |->
          arr.data[(q - 1) % NMonths][((q - 1) \div NMonths) % a][(q - 1) \div (NMonths * a)]]

ToBytes(arr) ==
    LET a == arr.shape[2]
        b == arr.shape[3]
    IN [q \in 1..(NMonths * a * b) |->
          arr.data[(q - 1) \div (a * b)][((q - 1) % (a * b)) \div b][(q - 1) % b]]

(* ------------------------------------------------------------------ state *)
VARIABLES
    cfg,        \* the CONFIG block: the two axes, the scale
    provider,   \* the installed collaborator (its interface, its data)
    nanCast,    \* the byte the platform's cast of NaN yields; -1: not yet seen
    pc,         \* position of the script
    lats, nlat, lons, nlon,
    out,        \* the volume under construction
    i, j,       \* the loop indices of build_grid
    tl,         \* the series returned by lt_lookup for the current cell
    calls,      \* the collaborator calls of the current lt_lookup invocation
    ncalls,     \* the collaborator calls made so far
    nstores,    \* per cell, the number of times out[:, i, j] was assigned
    meta,       \* the metadata returned by build_grid (<<>>: none)
    header,     \* the header bytes built by write_bin
    fopen,      \* the file object f is open
    buf,        \* bytes written to f and not yet flushed
    disk,       \* the file at OUTFILE: [exists, bytes]
    err         \* the exception that ended the run: [kind, stage]

vars == << cfg, provider, nanCast, pc, lats, nlat, lons, nlon, out, i, j, tl,
           calls, ncalls, nstores, meta, header, fopen, buf, disk, err >>

gridVars == << lats, nlat, lons, nlon, out, i, j, tl, calls, ncalls, nstores, meta >>
fileVars == << header, fopen, buf, disk >>
fixedVars == << cfg, provider >>

NoErr == [kind |-> "none", stage |-> "none"]

\* meta before build_grid has returned
NoMeta == [nlat |-> -1, nlon |-> -1, lat0 |-> NaN, lon0 |-> NaN,
           dlat |-> NaN, dlon |-> NaN, scale |-> -1]

AxisSpecs(vmin, maxSpan) ==
    { [vmin |-> vmin, vmax |-> vmax, dv |-> dv] :
        vmax \in (vmin - 1)..(vmin + maxSpan), dv \in (-1)..MaxStep }

Configs ==
    { [lat |-> a, lon |-> b, scale |-> SCALE] :
        a \in AxisSpecs(-1, MaxLatSpan), b \in AxisSpecs(-1, MaxLonSpan) }

Providers ==
    { p \in [api : {"keyword", "positional"}, data : 0..2,
             fault : {"none", "unavailable", "typeerror"},
             where : {"everywhere", "north_east"}] :
        p.fault = "none" => p.where = "everywhere" }

Init ==
    /\ cfg \in Configs
    /\ provider \in Providers
    /\ nanCast = -1
    /\ pc = "build_grid"
    /\ lats = <<>> /\ nlat = 0 /\ lons = <<>> /\ nlon = 0
    /\ out = Zeros(0, 0)
    /\ i = 0 /\ j = 0
    /\ tl = <<>>
    /\ calls = <<>>
    /\ ncalls = 0
    /\ nstores = << >>
    /\ meta = NoMeta
    /\ header = <<>>
    /\ fopen = FALSE
    /\ buf = <<>>
    /\ disk = [exists |-> FALSE, bytes |-> <<>>]
    /\ err = NoErr

Raise(kind, stage) ==
    /\ pc' = "failed"
    /\ err' = [kind |-> kind, stage |-> stage]

(* ------------------------------------------------------------- build_grid *)
\* lats, nlat = centers(LAT_MIN, LAT_MAX, DLAT)
CentersLat ==
    /\ pc = "build_grid"
    /\ LET c == centers(cfg.lat.vmin, cfg.lat.vmax, cfg.lat.dv)
       IN IF c.err # "none"
          THEN /\ Raise(c.err, "centers_lat")
               /\ UNCHANGED << lats, nlat >>
          ELSE /\ lats' = c.vals
               /\ nlat' = c.n
               /\ pc' = "centers_lon"
               /\ err' = err
    /\ UNCHANGED << lons, nlon, out, i, j, tl, calls, ncalls, nstores, meta >>
    /\ UNCHANGED << fixedVars, fileVars, nanCast >>

\* lons, nlon = centers(...); months = ...; out = np.zeros((12, nlat, nlon))
CentersLon ==
    /\ pc = "centers_lon"
    /\ LET c == centers(cfg.lon.vmin, cfg.lon.vmax, cfg.lon.dv)
       IN IF c.err # "none"
          THEN /\ Raise(c.err, "centers_lon")
               /\ UNCHANGED << lons, nlon, out, nstores >>
          ELSE /\ lons' = c.vals
               /\ nlon' = c.n
               /\ out' = Zeros(nlat, c.n)
               /\ nstores' = [r \in 0..(nlat - 1) |-> [c2 \in 0..(c.n - 1) |-> 0]]
               /\ pc' = "loop"
               /\ err' = err
    /\ UNCHANGED << lats, nlat, i, j, tl, calls, ncalls, meta >>
    /\ UNCHANGED << fixedVars, fileVars, nanCast >>

\* the two for statements: the next cell, or the end of the loops
LoopSkipsLastRowMutant ==
    /\ pc = "loop"
    /\ IF i < nlat - 1 /\ j < nlon
       THEN /\ pc' = "lookup_kw"
            /\ calls' = <<>>
            /\ UNCHANGED << i, j >>
       ELSE IF i < nlat - 1
       THEN /\ i' = i + 1
            /\ j' = 0
            /\ UNCHANGED << pc, calls >>
       ELSE /\ pc' = "meta"
            /\ UNCHANGED << i, j, calls >>
    /\ UNCHANGED << lats, nlat, lons, nlon, out, tl, ncalls, nstores, meta, err >>
    /\ UNCHANGED << fixedVars, fileVars, nanCast >>

Loop ==
    /\ pc = "loop"
    /\ IF i < nlat /\ j < nlon
       THEN /\ pc' = "lookup_kw"
            /\ calls' = <<>>
            /\ UNCHANGED << i, j >>
       ELSE IF i < nlat
       THEN /\ i' = i + 1
            /\ j' = 0
            /\ UNCHANGED << pc, calls >>
       ELSE /\ pc' = "meta"
            /\ UNCHANGED << i, j, calls >>
    /\ UNCHANGED << lats, nlat, lons, nlon, out, tl, ncalls, nstores, meta, err >>
    /\ UNCHANGED << fixedVars, fileVars, nanCast >>

(* -------------------------------------------------------------- lt_lookup *)
\* try: return lookup_linke_turbidity(months, latitude=..., longitude=...)
LookupKeyword ==
    /\ pc = "lookup_kw"
    /\ LET r == Collaborator(provider, "keyword", lats[i + 1], lons[j + 1])
       IN /\ calls' = Append(calls, [form |-> "keyword", lat |-> lats[i + 1],
                                     lon |-> lons[j + 1], res |-> r.res])
          /\ ncalls' = ncalls + 1
          /\ IF r.res = "ok"
             THEN /\ tl' = r.tl
                  /\ pc' = "store"
                  /\ err' = err
             ELSE IF Caught(r.res)
             THEN /\ pc' = "lookup_pos"
                  /\ UNCHANGED << tl, err >>
             ELSE /\ Raise(ExcClass(r.res), "sampler")
                  /\ tl' = tl
    /\ UNCHANGED << lats, nlat, lons, nlon, out, i, j, nstores, meta >>
    /\ UNCHANGED << fixedVars, fileVars, nanCast >>

\* except TypeError: return lookup_linke_turbidity(months, float(lat), float(lon))
LookupPositional ==
    /\ pc = "lookup_pos"
    /\ LET r == Collaborator(provider, "positional", lats[i + 1], lons[j + 1])
       IN /\ calls' = Append(calls, [form |-> "positional", lat |-> lats[i + 1],
                                     lon |-> lons[j + 1], res |-> r.res])
          /\ ncalls' = ncalls + 1
          /\ IF r.res = "ok"
             THEN /\ tl' = r.tl
                  /\ pc' = "store"
                  /\ err' = err
             ELSE /\ Raise(ExcClass(r.res), "sampler")
                  /\ tl' = tl
    /\ UNCHANGED << lats, nlat, lons, nlon, out, i, j, nstores, meta >>
    /\ UNCHANGED << fixedVars, fileVars, nanCast >>

(* ------------------------------------------------- quantize and store cell *)
\* v = np.rint(np.clip(tl * SCALE, 0, 255)).astype(np.uint8); out[:, i, j] = v
Store ==
    /\ pc = "store"
    /\ \E nc \in (IF nanCast # -1 THEN {nanCast}
                  ELSE IF HasNaN(tl) THEN NaNCastOutcomes ELSE {-1}) :
          LET v == [m \in 0..(NMonths - 1) |-> Quantize(tl[m], cfg.scale, nc)]
              cell == << i, j >>
          IN /\ nanCast' = nc
             /\ out' = [out EXCEPT !.data =
                          [m \in 0..(NMonths - 1) |->
                              [out.data[m] EXCEPT ![cell[1]][cell[2]] = v[m]]]]
             /\ nstores' = [nstores EXCEPT ![cell[1]][cell[2]] = @ + 1]
    /\ j' = j + 1
    /\ pc' = "loop"
    /\ UNCHANGED << lats, nlat, lons, nlon, i, tl, calls, ncalls, meta, err >>
    /\ UNCHANGED << fixedVars, fileVars >>

\* meta = {...}: lats[0] and lons[0] raise IndexError on an empty axis
Meta ==
    /\ pc = "meta"
    /\ IF nlat = 0 \/ nlon = 0
       THEN /\ Raise("IndexError", "assemble")
            /\ meta' = meta
       ELSE /\ meta' = [nlat |-> nlat, nlon |-> nlon,
                        lat0 |-> lats[1], lon0 |-> lons[1],
                        dlat |-> Rat(cfg.lat.dv, 1), dlon |-> Rat(cfg.lon.dv, 1),
                        scale |-> cfg.scale]
            /\ pc' = "write_bin"
            /\ err' = err
    /\ UNCHANGED << lats, nlat, lons, nlon, out, i, j, tl, calls, ncalls, nstores >>
    /\ UNCHANGED << fixedVars, fileVars, nanCast >>

(* -------------------------------------------------------------- write_bin *)
\* header = bytearray(); header += ... (lines 67-75), before the file is opened
WriteBin ==
    /\ pc = "write_bin"
    /\ LET h == PackHeader(meta)
       IN IF h.err # "none"
          THEN /\ Raise(h.err, "encode")
               /\ header' = header
          ELSE /\ header' = h.bytes
               /\ pc' = "open"
               /\ err' = err
    /\ UNCHANGED << fopen, buf, disk >>
    /\ UNCHANGED << fixedVars, gridVars, nanCast >>

\* with open(path, "wb") as f: creates or truncates the file at OUTFILE
Open ==
    /\ pc = "open"
    /\ fopen' = TRUE
    /\ buf' = <<>>
    /\ disk' = [exists |-> TRUE, bytes |-> <<>>]
    /\ pc' = "write_header"
    /\ UNCHANGED << header, err >>
    /\ UNCHANGED << fixedVars, gridVars, nanCast >>

\* f.write(header)
WriteHeader ==
    /\ pc = "write_header"
    /\ buf' = buf \o header
    /\ pc' = "write_payload"
    /\ UNCHANGED << header, fopen, disk, err >>
    /\ UNCHANGED << fixedVars, gridVars, nanCast >>

\* f.write(arr.tobytes(order="C"))
WritePayload ==
    /\ pc = "write_payload"
    /\ buf' = buf \o ToBytes(out)
    /\ pc' = "close"
    /\ UNCHANGED << header, fopen, disk, err >>
    /\ UNCHANGED << fixedVars, gridVars, nanCast >>

\* the buffered writer hands its buffer to the operating system (when the
\* buffer fills, which depends on the platform's buffer size)
Flush ==
    /\ fopen
    /\ buf # <<>>
    /\ disk' = [disk EXCEPT !.bytes = @ \o buf]
    /\ buf' = <<>>
    /\ UNCHANGED << header, fopen, pc, err >>
    /\ UNCHANGED << fixedVars, gridVars, nanCast >>

\* the end of the with block: flush and close; then the print of line 84
Close ==
    /\ pc = "close"
    /\ disk' = [disk EXCEPT !.bytes = @ \o buf]
    /\ buf' = <<>>
    /\ fopen' = FALSE
    /\ pc' = "done"
    /\ UNCHANGED << header, err >>
    /\ UNCHANGED << fixedVars, gridVars, nanCast >>

Terminal == {"done", "failed", "killed"}

\* the process is interrupted (a signal): unflushed bytes are lost
Interrupt ==
    /\ pc \notin Terminal
    /\ pc' = "killed"
    /\ buf' = <<>>
    /\ fopen' = FALSE
    /\ UNCHANGED << header, disk, err >>
    /\ UNCHANGED << fixedVars, gridVars, nanCast >>

Next ==
    \/ CentersLat
    \/ CentersLon
    \/ Loop
    \/ LookupKeyword
    \/ LookupPositional
    \/ Store
    \/ Meta
    \/ WriteBin
    \/ Open
    \/ WriteHeader
    \/ WritePayload
    \/ Flush
    \/ Close
    \/ Interrupt

Spec == Init /\ [][Next]_vars

(* --------------------------------------- write_bin called on any metadata *)
Filled(a, b, v) ==
    [shape |-> << NMonths, a, b >>,
     data |-> [m \in 0..(NMonths - 1) |-> [r \in 0..(a - 1) |-> [c \in 0..(b - 1) |-> v]]]]

EncMetas ==
    [nlat : {-1, 0, 1, 2, U16Max, U16Max + 1, 70000},
     nlon : {0, 1, 2, U16Max, U16Max + 1},
     scale : {-1, 0, SCALE, U8Max, U8Max + 1, 300},
     lat0 : {Rat(-129, 2), Big}, lon0 : {Rat(-359, 2), Big},
     dlat : {Rat(1, 1), Big}, dlon : {Rat(1, 1), Rat(1, 3)}]

InitEnc ==
    /\ cfg = [lat |-> [vmin |-> 0, vmax |-> 0, dv |-> 0],
              lon |-> [vmin |-> 0, vmax |-> 0, dv |-> 0], scale |-> SCALE]
    /\ provider = [api |-> "keyword", data |-> 0, fault |-> "none",
                   where |-> "everywhere"]
    /\ nanCast = -1
    /\ pc = "write_bin"
    /\ lats = <<>> /\ nlat = 0 /\ lons = <<>> /\ nlon = 0
    /\ out \in { Filled(1, 1, 7), Filled(1, 2, U8Max) }
    /\ i = 0 /\ j = 0
    /\ tl = <<>>
    /\ calls = <<>>
    /\ ncalls = 0
    /\ nstores = << >>
    /\ meta \in EncMetas
    /\ header = <<>>
    /\ fopen = FALSE
    /\ buf = <<>>
    /\ disk = [exists |-> FALSE, bytes |-> <<>>]
    /\ err = NoErr

NextEnc ==
    \/ WriteBin
    \/ Open
    \/ WriteHeader
    \/ WritePayload
    \/ Flush
    \/ Close
    \/ Interrupt

SpecEnc == InitEnc /\ [][NextEnc]_vars

(* ================================================================ claims *)
Cells == { rc \in (0..(nlat - 1)) \X (0..(nlon - 1)) : TRUE }

\* the value the collaborator holds for month m of cell (r, c)
Sampled(m, r, c) == Series(provider, lats[r + 1], lons[c + 1])[m]

AllCellsStored ==
    /\ pc \notin {"build_grid", "centers_lon"}
    /\ \A rc \in Cells : nstores[rc[1]][rc[2]] = 1

FileUntouched == ~disk.exists /\ disk.bytes = <<>> /\ ~fopen /\ buf = <<>>

(* C1: every lt_lookup call invokes the collaborator in keyword form first;  *)
(* a second, positional invocation with the same coordinates happens if and  *)
(* only if the keyword invocation failed with a signature mismatch; a        *)
(* successful keyword call is the only call and its result is returned.      *)
C1_PositionalIffSignatureMismatch ==
    /\ calls # <<>> => calls[1].form = "keyword"
    /\ Len(calls) <= 2
    /\ Len(calls) = 2 =>
          /\ calls[1].res = "sigmismatch"
          /\ calls[2].form = "positional"
          /\ calls[2].lat = calls[1].lat /\ calls[2].lon = calls[1].lon
    /\ (Len(calls) = 1 /\ calls[1].res = "sigmismatch") => pc \in {"lookup_pos", "killed"}
    /\ pc = "store" =>
          /\ calls[Len(calls)].res = "ok"
          /\ tl = Series(provider, calls[1].lat, calls[1].lon)
          /\ calls[1].res = "ok" => Len(calls) = 1

(* C2: a keyword-form failure that is not a signature mismatch (data          *)
(* unavailable, or an error raised inside the collaborator after its          *)
(* arguments were accepted) propagates unchanged and the collaborator is not  *)
(* invoked a second time.                                                     *)
C2_OtherFailureNotRetried ==
    (calls # <<>> /\ calls[1].res \in {"unavailable", "typeerror"}) =>
        /\ Len(calls) = 1
        /\ pc \in {"failed", "killed"}
        /\ pc = "failed" => err = [kind |-> ExcClass(calls[1].res), stage |-> "sampler"]

(* C3: for a grid with nlat >= 1 and nlon >= 1 whose cells were all sampled,  *)
(* the written stream has 28 + 12*nlat*nlon bytes, the byte at offset         *)
(* 28 + m*nlat*nlon + i*nlon + j is the quantized m-th value of cell (i, j),  *)
(* and every cell's column was assigned exactly once.                         *)
C3_StreamLayout ==
    (pc = "done" /\ nlat >= 1 /\ nlon >= 1) =>
        /\ Len(disk.bytes) = 28 + 12 * nlat * nlon
        /\ \A m \in 0..11 : \A rc \in Cells :
              disk.bytes[28 + m * nlat * nlon + rc[1] * nlon + rc[2] + 1]
                 = Quantize(Sampled(m, rc[1], rc[2]), cfg.scale, nanCast)
        /\ \A rc \in Cells : nstores[rc[1]][rc[2]] = 1

\* C3 witness, the 2 x 2 scenario: a complete file of 28 + 48 bytes
C3_Witness ==
    pc = "done" /\ nlat = 2 /\ nlon = 2 /\ Len(disk.bytes) = 76

(* C4: write_bin is not entered and nothing is written before every cell has  *)
(* been sampled and stored; a Sampler failure aborts the assembly at that     *)
(* cell, no grid is returned and no output byte is ever written.              *)
C4_NoOutputBeforeCompleteNorAfterFailure ==
    /\ (pc \in {"write_bin", "open", "write_header", "write_payload", "close", "done"}
          \/ ~FileUntouched \/ header # <<>> \/ meta # NoMeta)
        => AllCellsStored
    /\ err.stage = "sampler" =>
          /\ pc = "failed"
          /\ meta = NoMeta
          /\ FileUntouched
          /\ nstores[i][j] = 0
          /\ calls[Len(calls)].lat = lats[i + 1] /\ calls[Len(calls)].lon = lons[j + 1]

\* C4 witness: a Sampler failure after some cells were already stored
C4_Witness ==
    /\ err.stage = "sampler"
    /\ \E rc \in Cells : nstores[rc[1]][rc[2]] = 1

(* C5: in every reachable state the output path holds either no new file or   *)
(* the complete file of 28 + 12*nlat*nlon bytes.                              *)
C5_NeverPartialFile ==
    \/ ~disk.exists
    \/ /\ Len(disk.bytes) = 28 + 12 * out.shape[2] * out.shape[3]
       /\ disk.bytes = header \o ToBytes(out)

(* C6: metadata with nlat > 65535, nlon > 65535 or scale > 255 makes          *)
(* write_bin fail before the file is opened or a byte is written; with the    *)
(* three fields within their widths the metadata does not make it fail.       *)
MetaOver == meta.nlat > U16Max \/ meta.nlon > U16Max \/ meta.scale > U8Max

MetaWithin ==
    /\ meta.nlat \in 0..U16Max
    /\ meta.nlon \in 0..U16Max
    /\ meta.scale \in 0..U8Max

MetaFloatsFit ==
    \A x \in {meta.lat0, meta.lon0, meta.dlat, meta.dlon} : x.k # "big"

OverflowFailsBeforeOpen ==
    MetaOver =>
        /\ pc \in {"write_bin", "failed", "killed"}
        /\ pc = "failed" => (err.stage = "encode" /\ err.kind = "struct.error")
        /\ FileUntouched

\* C6 as stated: overflow of nlat, nlon or scale fails before the file is
\* opened, and the three integer fields alone decide whether encoding fails
C6_Original ==
    /\ OverflowFailsBeforeOpen
    /\ MetaWithin => pc # "failed"

\* C6 amended: overflow of nlat, nlon or scale fails before the file is opened;
\* encoding does not fail when these three and the four float32 fields fit
C6_OverflowBeforeOpen ==
    /\ OverflowFailsBeforeOpen
    /\ (MetaWithin /\ MetaFloatsFit) => pc # "failed"
    /\ (MetaWithin /\ MetaFloatsFit /\ pc = "done") => Len(disk.bytes) >= 28

\* C6 witness: nlat = 65536 failed in struct.pack, the path untouched
C6_Witness ==
    /\ pc = "failed" /\ err.kind = "struct.error"
    /\ meta.nlat = U16Max + 1 /\ meta.nlon = 1 /\ meta.scale = SCALE
    /\ FileUntouched

(* C7: for a valid axis (max > min, step > 0, integral cell count) centers    *)
(* returns n = (max-min)/step values, the k-th being min + step/2 + k*step:   *)
(* the first is min + step/2, consecutive values differ by step, the values   *)
(* increase strictly and the last is below max.                               *)
AfterCentersLon ==
    {"loop", "lookup_kw", "lookup_pos", "store", "meta", "write_bin", "open",
     "write_header", "write_payload", "close", "done"}

AfterCentersLat == AfterCentersLon \cup {"centers_lon"}

ValidAxis(a) ==
    /\ a.vmax > a.vmin
    /\ a.dv > 0
    /\ (a.vmax - a.vmin) % a.dv = 0

\* x - y = dv, exactly
DiffersBy(x, y, dv) == x.n * y.d - y.n * x.d = dv * x.d * y.d

CentersOf(a, vals, n) ==
    /\ n * a.dv = a.vmax - a.vmin
    /\ Len(vals) = n
    /\ \A k \in 0..(n - 1) :
          2 * vals[k + 1].n = vals[k + 1].d * (2 * a.vmin + a.dv + 2 * k * a.dv)
    /\ 2 * vals[1].n = vals[1].d * (2 * a.vmin + a.dv)
    /\ \A k \in 1..(n - 1) :
          /\ RLess(vals[k], vals[k + 1])
          /\ DiffersBy(vals[k + 1], vals[k], a.dv)
    /\ RLess(vals[n], Rat(a.vmax, 1))

C7_CentersOfValidAxis ==
    /\ ValidAxis(cfg.lat) =>
          /\ err.stage # "centers_lat"
          /\ pc \in AfterCentersLat => CentersOf(cfg.lat, lats, nlat)
    /\ (ValidAxis(cfg.lat) /\ ValidAxis(cfg.lon)) =>
          /\ err.stage \notin {"centers_lat", "centers_lon"}
          /\ pc \in AfterCentersLon => CentersOf(cfg.lon, lons, nlon)
    /\ pc = "centers_lon" =>
          LET c == centers(-65, 65, 1)
          IN c.n = 130 /\ c.vals[1] = Rat(-129, 2) /\ c.vals[130] = Rat(129, 2)

\* C7 witness: the axis -1..2 with step 1 has the centers -0.5, 0.5, 1.5
C7_Witness ==
    /\ pc = "loop" /\ ValidAxis(cfg.lat) /\ ValidAxis(cfg.lon)
    /\ nlat = 3 /\ nlon = 2
    /\ lats = << Rat(-1, 2), Rat(1, 2), Rat(3, 2) >>

(* C8: an axis whose cell count round((max-min)/step) is <= 0 or whose ratio  *)
(* is not integral makes centers fail, and the run aborts before the Sampler  *)
(* is called and before any output byte is written.                           *)
BadAxis(a) ==
    \/ a.dv = 0
    \/ (a.vmax - a.vmin) % Abs(a.dv) # 0
    \/ RoundHalfEven(a.vmax - a.vmin, a.dv) <= 0

C8_InvalidDomainAborts ==
    /\ BadAxis(cfg.lat) =>
          /\ pc \in {"build_grid", "failed", "killed"}
          /\ pc = "failed" => err.stage = "centers_lat"
    /\ BadAxis(cfg.lon) =>
          /\ pc \in {"build_grid", "centers_lon", "failed", "killed"}
          /\ pc = "failed" => err.stage \in {"centers_lat", "centers_lon"}
    /\ (BadAxis(cfg.lat) \/ BadAxis(cfg.lon)) => (ncalls = 0 /\ FileUntouched)

(* C9: every finite value v is stored as the byte round-half-even(clip(v *    *)
(* scale, 0, 255)), the clip applied before the rounding: an integer in       *)
(* 0..255 (3.07 -> 61, 13.0 -> 255, -1.0 -> 0 at scale 20).                   *)
NearestEven(b, p, q) ==
    /\ 2 * Abs(b * q - p) <= q
    /\ 2 * Abs(b * q - p) = q => b % 2 = 0

\* b is the byte of the value p/q (q > 0), already scaled
IsQuantized(b, p, q) ==
    /\ b \in 0..255
    /\ p <= 0 => b = 0
    /\ p >= 255 * q => b = 255
    /\ (0 < p /\ p < 255 * q) => NearestEven(b, p, q)

C9_StoredByteIsClippedThenRounded ==
    /\ pc \notin {"build_grid", "centers_lon"} =>
          \A rc \in Cells : \A m \in 0..11 :
              LET v == Sampled(m, rc[1], rc[2])
              IN (nstores[rc[1]][rc[2]] >= 1 /\ IsFinite(v)) =>
                     IsQuantized(out.data[m][rc[1]][rc[2]], v.n * cfg.scale, v.d)
    /\ pc = "store" =>
          /\ Quantize(Rat(307, 100), 20, -1) = 61
          /\ Quantize(Rat(13, 1), 20, -1) = 255
          /\ Quantize(Rat(-1, 1), 20, -1) = 0

\* C9 witness: a tie was stored, 0.125 * 20 = 2.5 is held as 2
C9_Witness ==
    /\ pc = "loop" /\ nlat >= 1 /\ nlon >= 1 /\ nstores[0][0] = 1
    /\ \E m \in 0..11 :
          /\ Sampled(m, 0, 0) = Rat(125, 1000)
          /\ out.data[m][0][0] = 2

(* C10: a non-finite value (NaN, +Inf, -Inf) returned by the Sampler makes    *)
(* the quantization fail: no byte is stored for it and no output file is      *)
(* produced.                                                                  *)
C10_NonFiniteRejected ==
    pc \notin {"build_grid", "centers_lon"} =>
        \A rc \in Cells : \A m \in 0..11 :
            ~IsFinite(Sampled(m, rc[1], rc[2])) =>
                /\ nstores[rc[1]][rc[2]] = 0
                /\ ~disk.exists

====
